---- MODULE Spec2Model ----
(***************************************************************************)
(* State-machine model of examples/golang_prom_metrics/main.go: a process  *)
(* that registers a counter and a histogram, launches the updater          *)
(* goroutine, installs promhttp.Handler() on /metrics and listens on       *)
(* :8080.  Observed values are kept in integer milliseconds (the code      *)
(* divides nanoseconds by 1e9 to get fractional seconds); the bucket       *)
(* bounds are scaled the same way.  The library calls are modelled by      *)
(* their documented behaviour: Inc, Observe and the collection of one      *)
(* instrument are each atomic.  The runtime and process collectors the     *)
(* default registry also exposes (go_..., process_...) are left out of the *)
(* output.                                                                 *)
(***************************************************************************)
EXTENDS Integers, Sequences, FiniteSets, TLC

\* ------------------------------------------------------------------ bounds
MaxCycles == 2
MaxReq == 2
\* Requests the clients send in the specification with fairness.
MaxReqFair == 1

Req == 1..MaxReq

\* Wall-clock time (ms since the epoch) at process start.  With the 5 s sleep
\* between observations the observed values fall on a bucket bound, strictly
\* between two bounds, and above every bound.
StartTimes == {5, 9995}

\* -------------------------------------------------------- program constants
CounterName == "requests_total"
HistName == "request_duration_seconds"
HandlerTotalName == "promhttp_metric_handler_requests_total"
HandlerInFlightName == "promhttp_metric_handler_requests_in_flight"

\* time.Sleep(5 * time.Second), in milliseconds.
SleepMs == 5000

\* prometheus.DefBuckets {.005 .. 10} seconds, in milliseconds.
DefBuckets == <<5, 10, 25, 50, 100, 250, 500, 1000, 2500, 5000, 10000>>
NB == Len(DefBuckets)

\* Names the two Opts.Name fields may carry in the duplicate-registration
\* specification.
Names == {CounterName, HistName}

VARIABLES
  names,        \* [counter, hist]: the Name of each instrument's Opts
  registry,     \* names registered with the default registry
  mainPc,       \* position of init()/main()
  exitCode,     \* -1 while the process runs, else its exit status
  diag,         \* message written to the error stream on termination
  clock,        \* wall-clock time in ms, as time.Now() returns it
  upc,          \* position of the updateMetrics goroutine
  c,            \* value of requestsTotal
  hist,         \* state of requestDuration: [count, sum, buckets]
  observed,     \* history: the values passed to Observe so far, in order
  muts,         \* history: number of instrument mutations performed so far
  slept,        \* history: number of 5 s sleeps that have elapsed
  handlerTotal, \* promhttp_metric_handler_requests_total{code="200"}
  inFlight,     \* promhttp_metric_handler_requests_in_flight
  req           \* per request: progress of one GET /metrics

vars == <<names, registry, mainPc, exitCode, diag, clock, upc, c, hist,
          observed, muts, slept, handlerTotal, inFlight, req>>

progVars == <<names, registry, mainPc, exitCode, diag>>
updVars == <<clock, upc, c, hist, observed, muts, slept>>
httpVars == <<handlerTotal, inFlight, req>>
gaugeVars == <<handlerTotal, inFlight>>

\* --------------------------------------------------------------- histogram
EmptyHist == [count |-> 0, sum |-> 0, buckets |-> [i \in 1..NB |-> 0]]

\* Faulty variant of FindBucket: a value equal to a bound goes one bucket up.
FindBucketStrict(v) ==
  IF \E i \in 1..NB : DefBuckets[i] > v
    THEN CHOOSE i \in 1..NB :
           /\ DefBuckets[i] > v
           /\ \A j \in 1..(i - 1) : ~(DefBuckets[j] > v)
    ELSE NB + 1

\* sort.SearchFloat64s(upperBounds, v): the first bucket whose bound is >= v,
\* NB + 1 when v exceeds every bound (only +Inf counts it).
FindBucket(v) ==
  IF \E i \in 1..NB : DefBuckets[i] >= v
    THEN CHOOSE i \in 1..NB :
           /\ DefBuckets[i] >= v
           /\ \A j \in 1..(i - 1) : DefBuckets[j] < v
    ELSE NB + 1

\* Faulty variant of ObserveInto: the sum misses a value no finite bucket
\* holds.
ObserveIntoSkipSum(h, v) ==
  LET i == FindBucket(v) IN
  [count |-> h.count + 1,
   sum |-> IF i <= NB THEN h.sum + v ELSE h.sum,
   buckets |-> IF i <= NB THEN [h.buckets EXCEPT ![i] = @ + 1] ELSE h.buckets]

\* histogram.Observe(v)
ObserveInto(h, v) ==
  LET i == FindBucket(v) IN
  [count |-> h.count + 1,
   sum |-> h.sum + v,
   buckets |-> IF i <= NB THEN [h.buckets EXCEPT ![i] = @ + 1] ELSE h.buckets]

RECURSIVE CumUpTo(_, _)
CumUpTo(b, i) == IF i = 0 THEN 0 ELSE b[i] + CumUpTo(b, i - 1)

\* histogram.Write: the exposed sample, with cumulative bucket counts
\* (le="+Inf" is the count).
WriteHist(h) ==
  [count |-> h.count, sum |-> h.sum,
   cum |-> [i \in 1..NB |-> CumUpTo(h.buckets, i)]]

RECURSIVE SumSeq(_)
SumSeq(s) == IF s = <<>> THEN 0 ELSE s[1] + SumSeq(Tail(s))

RECURSIVE HistOf(_)
HistOf(s) ==
  IF s = <<>> THEN EmptyHist
  ELSE ObserveInto(HistOf(SubSeq(s, 1, Len(s) - 1)), s[Len(s)])

\* ----------------------------------------------------------------- requests
NoVal == 0 - 1
NoHist == [count |-> NoVal, sum |-> 0, cum |-> [i \in 1..NB |-> 0]]

\* One GET /metrics.  rc, rh, rt, rg: the samples collected for the counter,
\* the histogram, the handler's request counter and its in-flight gauge.
\* dirty, epoch are history: dirty is set when an instrument is mutated while
\* the request is being served; epoch is the value of muts throughout a
\* request served with no mutation, NoVal otherwise.
IdleReq ==
  [st |-> "idle", dirty |-> FALSE, epoch |-> NoVal,
   rc |-> NoVal, rh |-> NoHist, rt |-> NoVal, rg |-> NoVal]

\* A request no client ever sends.
UnsentReq == [IdleReq EXCEPT !.st = "unsent"]

\* History update shared by the mutating steps.
Touch(q) == [r \in Req |-> IF q[r].st = "active"
                             THEN [q[r] EXCEPT !.dirty = TRUE] ELSE q[r]]

Alive == exitCode = -1

\* ---------------------------------------------------------------- bootstrap
InitProc ==
  /\ clock \in StartTimes
  /\ registry = {}
  /\ mainPc = "reg_counter"
  /\ exitCode = -1
  /\ diag = ""
  /\ upc = "off"
  /\ c = 0
  /\ hist = EmptyHist
  /\ observed = <<>>
  /\ muts = 0
  /\ slept = 0
  /\ handlerTotal = 0
  /\ inFlight = 0

InitRest ==
  /\ InitProc
  /\ req = [r \in Req |-> IdleReq]

\* The program as written: the two instruments carry distinct names.
Init ==
  /\ names = [counter |-> CounterName, hist |-> HistName]
  /\ InitRest

\* The configuration error of a repeated name: the histogram's Name is any
\* of the two names.
InitDup ==
  /\ names \in [counter : {CounterName}, hist : Names]
  /\ InitRest

\* The program as written, with at most MaxReqFair requests ever sent.
InitFair ==
  /\ names = [counter |-> CounterName, hist |-> HistName]
  /\ InitProc
  /\ req = [r \in Req |-> IF r <= MaxReqFair THEN IdleReq ELSE UnsentReq]

\* Faulty variant of MustRegister: a repeated name is ignored.
MustRegisterLenient(name, next) ==
  /\ registry' = registry \cup {name}
  /\ mainPc' = next
  /\ UNCHANGED <<exitCode, diag>>

\* prometheus.MustRegister: panics when the name is already registered.
MustRegister(name, next) ==
  IF name \in registry
    THEN /\ mainPc' = "exited"
         /\ exitCode' = 2
         /\ diag' = "panic: duplicate metrics collector registration attempted"
         /\ UNCHANGED registry
    ELSE /\ registry' = registry \cup {name}
         /\ mainPc' = next
         /\ UNCHANGED <<exitCode, diag>>

RegisterCounter ==
  /\ Alive /\ mainPc = "reg_counter"
  /\ MustRegister(names.counter, "reg_hist")
  /\ UNCHANGED <<names, updVars, httpVars>>

RegisterHist ==
  /\ Alive /\ mainPc = "reg_hist"
  /\ MustRegister(names.hist, "go")
  /\ UNCHANGED <<names, updVars, httpVars>>

\* go updateMetrics()
GoUpdater ==
  /\ Alive /\ mainPc = "go"
  /\ upc' = "inc"
  /\ mainPc' = "handle"
  /\ UNCHANGED <<names, registry, exitCode, diag, clock, c, hist, observed,
               muts, slept, httpVars>>

\* http.Handle("/metrics", promhttp.Handler()): the instrumented handler
\* registers its own request counter and in-flight gauge.
HttpHandle ==
  /\ Alive /\ mainPc = "handle"
  /\ registry' = registry \cup {HandlerTotalName, HandlerInFlightName}
  /\ mainPc' = "listen"
  /\ UNCHANGED <<names, exitCode, diag, updVars, httpVars>>

\* http.ListenAndServe(":8080", nil): the bind succeeds and the call blocks
\* serving, or it fails and the call returns the error.
ListenOk ==
  /\ Alive /\ mainPc = "listen"
  /\ mainPc' = "serving"
  /\ UNCHANGED <<names, registry, exitCode, diag, updVars, httpVars>>

ListenFail ==
  /\ Alive /\ mainPc = "listen"
  /\ mainPc' = "bind_failed"
  /\ UNCHANGED <<names, registry, exitCode, diag, updVars, httpVars>>

\* Faulty variant of LogFatal: the error is logged and the process goes on.
LogFatalContinue ==
  /\ Alive /\ mainPc = "bind_failed"
  /\ mainPc' = "serving"
  /\ diag' = "listen tcp :8080: bind: address already in use"
  /\ UNCHANGED <<names, registry, exitCode, updVars, httpVars>>

\* log.Fatal(err): print the error, os.Exit(1).
LogFatal ==
  /\ Alive /\ mainPc = "bind_failed"
  /\ mainPc' = "exited"
  /\ exitCode' = 1
  /\ diag' = "listen tcp :8080: bind: address already in use"
  /\ UNCHANGED <<names, registry, updVars, httpVars>>

\* ------------------------------------------------------------------ updater
\* Faulty variant of UpdaterInc: the increment waits for requests in flight.
UpdaterIncBlocking ==
  /\ Alive /\ upc = "inc" /\ c < MaxCycles
  /\ inFlight = 0
  /\ c' = c + 1
  /\ muts' = muts + 1
  /\ upc' = "observe"
  /\ req' = Touch(req)
  /\ UNCHANGED <<progVars, clock, hist, observed, slept, gaugeVars>>

\* Faulty variant of UpdaterInc: the increment is applied twice.
UpdaterIncTwice ==
  /\ Alive /\ upc = "inc" /\ c < MaxCycles
  /\ c' = c + 2
  /\ muts' = muts + 1
  /\ upc' = "observe"
  /\ req' = Touch(req)
  /\ UNCHANGED <<progVars, clock, hist, observed, slept, gaugeVars>>

\* requestsTotal.Inc()
UpdaterInc ==
  /\ Alive /\ upc = "inc" /\ c < MaxCycles
  /\ c' = c + 1
  /\ muts' = muts + 1
  /\ upc' = "observe"
  /\ req' = Touch(req)
  /\ UNCHANGED <<progVars, clock, hist, observed, slept, gaugeVars>>

\* requestDuration.Observe(float64(time.Now().UnixNano()) / 1e9)
UpdaterObserve ==
  /\ Alive /\ upc = "observe"
  /\ hist' = ObserveInto(hist, clock)
  /\ observed' = Append(observed, clock)
  /\ muts' = muts + 1
  /\ upc' = "sleep"
  /\ req' = Touch(req)
  /\ UNCHANGED <<progVars, clock, c, slept, gaugeVars>>

\* time.Sleep(5 * time.Second) returns; the loop repeats.
UpdaterWake ==
  /\ Alive /\ upc = "sleep"
  /\ upc' = "inc"
  /\ clock' = clock + SleepMs
  /\ slept' = slept + 1
  /\ UNCHANGED <<progVars, c, hist, observed, muts, httpVars>>

\* ----------------------------------------------------------------- handler
\* A connection is accepted and the instrumented handler is entered
\* (InstrumentHandlerInFlight: gauge.Inc()).  Requests are numbered in their
\* order of arrival.
Accept(r) ==
  /\ Alive /\ mainPc = "serving"
  /\ req[r].st = "idle"
  /\ \A q \in 1..(r - 1) : req[q].st # "idle"
  /\ req' = [req EXCEPT ![r].st = "active"]
  /\ inFlight' = inFlight + 1
  /\ UNCHANGED <<progVars, updVars, handlerTotal>>

\* Faulty variant of ReadCounter: a read racing with the cycle in progress
\* returns a value the counter does not hold.
ReadCounterTorn(r) ==
  /\ Alive /\ req[r].st = "active" /\ req[r].rc = NoVal
  /\ req' = [req EXCEPT ![r].rc = IF upc = "observe" THEN c + 1 ELSE c]
  /\ UNCHANGED <<progVars, updVars, handlerTotal, inFlight>>

\* Gather collects each registered instrument once, in no fixed order; each
\* instrument is read atomically.
ReadCounter(r) ==
  /\ Alive /\ req[r].st = "active" /\ req[r].rc = NoVal
  /\ req' = [req EXCEPT ![r].rc = c]
  /\ UNCHANGED <<progVars, updVars, handlerTotal, inFlight>>

\* Faulty variant of ReadHist: the count is read after an observation that
\* the sum, read earlier, does not include.
ReadHistTorn(r) ==
  /\ Alive /\ req[r].st = "active" /\ req[r].rh = NoHist
  /\ req' = [req EXCEPT ![r].rh =
       [WriteHist(hist) EXCEPT
          !.sum = IF observed = <<>> THEN 0
                  ELSE hist.sum - observed[Len(observed)]]]
  /\ UNCHANGED <<progVars, updVars, handlerTotal, inFlight>>

ReadHist(r) ==
  /\ Alive /\ req[r].st = "active" /\ req[r].rh = NoHist
  /\ req' = [req EXCEPT ![r].rh = WriteHist(hist)]
  /\ UNCHANGED <<progVars, updVars, handlerTotal, inFlight>>

\* Faulty variant of Respond: the handler counts the request in
\* requests_total.
RespondCounting(r) ==
  /\ Alive /\ req[r].st = "active"
  /\ req[r].rc # NoVal /\ req[r].rh # NoHist
  /\ req' = [req EXCEPT ![r].st = "done",
                        ![r].rt = handlerTotal, ![r].rg = inFlight,
                        ![r].dirty = FALSE,
                        ![r].epoch = IF req[r].dirty THEN NoVal ELSE muts]
  /\ handlerTotal' = handlerTotal + 1
  /\ inFlight' = inFlight - 1
  /\ c' = c + 1
  /\ UNCHANGED <<progVars, clock, upc, hist, observed, muts, slept>>

\* The handler's own two instruments are collected, the body is written with
\* status 200, InstrumentHandlerCounter counts the request and the deferred
\* gauge.Dec() runs.
Respond(r) ==
  /\ Alive /\ req[r].st = "active"
  /\ req[r].rc # NoVal /\ req[r].rh # NoHist
  /\ req' = [req EXCEPT ![r].st = "done",
                        ![r].rt = handlerTotal, ![r].rg = inFlight,
                        ![r].dirty = FALSE,
                        ![r].epoch = IF req[r].dirty THEN NoVal ELSE muts]
  /\ handlerTotal' = handlerTotal + 1
  /\ inFlight' = inFlight - 1
  /\ UNCHANGED <<progVars, updVars>>

\* ------------------------------------------------------------ specification
MainStep ==
  \/ RegisterCounter
  \/ RegisterHist
  \/ GoUpdater
  \/ HttpHandle
  \/ ListenOk
  \/ ListenFail
  \/ LogFatal

Updater ==
  \/ UpdaterInc
  \/ UpdaterObserve
  \/ UpdaterWake

Next ==
  \/ RegisterCounter
  \/ RegisterHist
  \/ GoUpdater
  \/ HttpHandle
  \/ ListenOk
  \/ ListenFail
  \/ LogFatal
  \/ UpdaterInc
  \/ UpdaterObserve
  \/ UpdaterWake
  \/ \E r \in Req : Accept(r)
  \/ \E r \in Req : ReadCounter(r)
  \/ \E r \in Req : ReadHist(r)
  \/ \E r \in Req : Respond(r)

Spec == Init /\ [][Next]_vars

SpecDup == InitDup /\ [][Next]_vars

\* The Go scheduler runs every runnable goroutine: main and the updater
\* keep taking their steps.  Nothing obliges a client to send a request or a
\* request to make progress.
FairSpec ==
  InitFair /\ [][Next]_vars /\ WF_vars(MainStep) /\ WF_vars(Updater)

\* ------------------------------------------------------------------ claims
\* Update cycles whose two mutations (Inc, then Observe) have completed.
Cycles == Len(observed)

\* Counter increments performed so far.
Incs == muts - Len(observed)

ReadsCounter(r) == req[r].rc = NoVal /\ req'[r].rc # NoVal
ReadsHist(r) == req[r].rh = NoHist /\ req'[r].rh # NoHist
IsDone(r) == req[r].st = "done"

\* A step of request r: it is accepted, collects a sample or responds.
ReqStep(r) ==
  \/ req'[r].st # req[r].st
  \/ req'[r].rc # req[r].rc
  \/ req'[r].rh # req[r].rh

\* The complete output of a served request, and its part for the two
\* instruments the program defines.
Out(r) == <<req[r].rc, req[r].rh, req[r].rt, req[r].rg>>
OutOwn(r) == <<req[r].rc, req[r].rh>>

\* Two requests served with no instrument mutation from the start of the
\* earlier to the end of the later one.
SameEpoch(r1, r2) ==
  /\ IsDone(r1) /\ IsDone(r2)
  /\ req[r1].epoch # NoVal
  /\ req[r1].epoch = req[r2].epoch

\* C1 (as stated): a render that reads the counter once exactly N update
\* cycles have completed gets exactly N, and later renders never get less.
C1_ExactlyN ==
  [][\A r \in Req : ReadsCounter(r) =>
        /\ req'[r].rc = Cycles
        /\ \A q \in Req : IsDone(q) => req[q].rc <= req'[r].rc]_vars

\* C1 (amended): the value a render reads is the number of increments
\* performed, which is N or N + 1 once N cycles have completed (N + 1
\* exactly while cycle N + 1 is between its Inc and its Observe), and later
\* renders never get less.
C1_CounterIsIncs ==
  [][\A r \in Req : ReadsCounter(r) =>
        /\ req'[r].rc = Incs
        /\ req'[r].rc \in {Cycles, Cycles + 1}
        /\ (req'[r].rc = Cycles + 1) <=> (upc = "observe")
        /\ \A q \in Req : IsDone(q) => req[q].rc <= req'[r].rc]_vars

C1_Witness ==
  \E r1, r2 \in Req :
    /\ IsDone(r1) /\ IsDone(r2)
    /\ req[r1].rc = 1 /\ req[r2].rc = 2
    /\ req[r2].rh.count = 1

\* C2: one Observe(v) raises by exactly 1 the exposed cumulative count of
\* every bucket whose bound is >= v (and of +Inf) and leaves the others as
\* they were.
C2_BucketsCumulative ==
  [][Len(observed') = Len(observed) + 1 =>
       LET v == observed'[Len(observed')]
           old == WriteHist(hist)
           new == WriteHist(hist')
       IN /\ \A i \in 1..NB :
               new.cum[i] = old.cum[i] + (IF DefBuckets[i] >= v THEN 1 ELSE 0)
          /\ new.count = old.count + 1]_vars

C2_Witness ==
  \E r \in Req :
    /\ IsDone(r)
    /\ req[r].rh.count = 2
    /\ req[r].rh.cum[1] = 1
    /\ req[r].rh.cum[NB - 1] = 1
    /\ req[r].rh.cum[NB] = 2

\* C3 (as stated): two requests served with no update between them return
\* identical output.
C3_IdenticalOutput ==
  \A r1, r2 \in Req : SameEpoch(r1, r2) => Out(r1) = Out(r2)

\* C3 (amended): two requests served with no update between them return
\* identical samples of requests_total and request_duration_seconds, and no
\* step of a request changes either instrument.
C3_OwnInstrumentsIdempotent ==
  [][/\ \A r1, r2 \in Req : SameEpoch(r1, r2)' => OutOwn(r1)' = OutOwn(r2)'
     /\ \A r \in Req : ReqStep(r) => UNCHANGED <<c, hist>>]_vars

C3_Witness ==
  \E r1, r2 \in Req :
    /\ SameEpoch(r1, r2)
    /\ req[r1].rc = 1 /\ req[r1].rh.count = 1
    /\ req[r1].rt = 0 /\ req[r2].rt = 1

\* C4: when a name is registered twice the process terminates with a
\* diagnostic before the updater is launched and before any request is
\* accepted.
DupConfigured == names.hist = names.counter

C4_DuplicateFailsFast ==
  DupConfigured =>
    /\ mainPc \in {"reg_counter", "reg_hist", "exited"}
    /\ upc = "off" /\ c = 0 /\ hist = EmptyHist
    /\ \A r \in Req : req[r].st = "idle"
    /\ mainPc = "exited" => (exitCode = 2 /\ diag # "")
    /\ mainPc = "reg_hist" => names.hist \in registry

C4_Witness ==
  /\ DupConfigured
  /\ mainPc = "exited" /\ exitCode = 2
  /\ registry = {CounterName}

\* C5: after a failed bind the process does nothing but terminate, with a
\* non-zero status and a message; it never serves, and once terminated
\* nothing runs any more.
C5_BindFailureIsFatal ==
  /\ [][/\ mainPc = "bind_failed" =>
             /\ mainPc' \in {"bind_failed", "exited"}
             /\ mainPc' = "exited" => (exitCode' = 1 /\ diag' # "")
        /\ (mainPc' = "bind_failed" \/ exitCode' # -1) =>
             \A r \in Req : req'[r].st \in {"idle", "unsent"}
        /\ exitCode = -1]_vars
  /\ (mainPc = "bind_failed") ~> (mainPc = "exited")

C5_Witness ==
  /\ mainPc = "exited" /\ exitCode = 1 /\ diag # ""
  /\ upc = "sleep" /\ c = 1

\* C6 (as stated): a render served before any update cycle has completed
\* reports counter 0 and histogram count 0.
C6_ZeroZero ==
  [][\A r \in Req :
        /\ (ReadsCounter(r) /\ Cycles = 0) => req'[r].rc = 0
        /\ (ReadsHist(r) /\ Cycles = 0) => req'[r].rh.count = 0]_vars

\* C6 (amended): a render served before the first 5 s sleep has elapsed
\* reports counter 0 or 1 and histogram count 0 or 1: 0 only when the read
\* precedes the first cycle's Inc, respectively Observe.
C6_ZeroOrOne ==
  [][\A r \in Req :
        /\ (ReadsCounter(r) /\ slept = 0) =>
             /\ req'[r].rc \in {0, 1}
             /\ (req'[r].rc = 0) <=> (upc = "inc")
        /\ (ReadsHist(r) /\ slept = 0) =>
             /\ req'[r].rh.count \in {0, 1}
             /\ (req'[r].rh.count = 0) <=> (upc \in {"inc", "observe"})]_vars

C6_Witness ==
  \E r \in Req :
    /\ IsDone(r) /\ slept = 0
    /\ req[r].rc = 1 /\ req[r].rh.count = 1

UpdaterOrder ==
  /\ (upc = "off" /\ upc' # "off") =>
       (upc' = "inc" /\ slept' = 0 /\ c' = c /\ hist' = hist)
  /\ (upc = "inc" /\ upc' # "inc") =>
       (upc' = "observe" /\ c' = c + 1 /\ hist' = hist /\ slept' = slept)
  /\ (upc = "observe" /\ upc' # "observe") =>
       /\ upc' = "sleep" /\ c' = c /\ slept' = slept
       /\ hist'.count = hist.count + 1
  /\ (upc = "sleep" /\ upc' # "sleep") =>
       /\ upc' = "inc" /\ c' = c /\ hist' = hist
       /\ slept' = slept + 1 /\ clock' = clock + SleepMs
  /\ upc' = upc => (c' = c /\ hist' = hist /\ clock' = clock)
  /\ (upc # "off" /\ exitCode' = -1) => upc' \in {"inc", "observe", "sleep"}

C8_UpdaterRunsForever ==
  /\ [][UpdaterOrder]_vars
  /\ (mainPc = "serving") ~> (c = MaxCycles /\ upc = "inc")

C8_Witness ==
  /\ mainPc = "serving" /\ c = MaxCycles /\ upc = "inc"
  /\ \A r \in 1..MaxReqFair : req[r].st = "active" /\ req[r].rc = NoVal
  /\ inFlight = MaxReqFair

C10_CounterLeadsByAtMostOne ==
  /\ hist.count <= c
  /\ c <= hist.count + 1
  /\ upc = "sleep" => c = hist.count

C10_Witness ==
  /\ upc = "observe" /\ c = 2 /\ hist.count = 1
  /\ \E r \in Req : req[r].st = "active"

====
